---- MODULE Spec2Model ----
(***************************************************************************)
(* Core Orientation - Guess the Angle (game.js).                           *)
(*                                                                         *)
(* The model covers the Game object (resetRound, startDrill, update), the  *)
(* pure helpers clamp and lineCircleIntersection, and the four callbacks   *)
(* that touch the Game object: gameLoop, the DRILL and NEW ROUND click     *)
(* handlers and the keydown handler.  Rendering, the HUD and the help      *)
(* modal read the Game object and never write it; they are not modelled.   *)
(*                                                                         *)
(* Numbers.  game.js computes in binary64.  TLC has 32-bit integers, so    *)
(* the model computes on an integer grid of one world unit: every value    *)
(* the code rounds to the nearest double is rounded here to the nearest    *)
(* integer (Round, Sqrt), Math.cos and Math.sin are tables of thousandths  *)
(* (TrigScale), and a parameter t of the intersection routine is kept as   *)
(* the exact fraction num / (2a).  A point is a pair <<x, y>>: p[1] is the *)
(* code's p[0] and p[2] is the code's p[1].  Elapsed time is kept in       *)
(* milliseconds, as gameLoop receives it, and divided by 1000 where the    *)
(* code does.                                                              *)
(***************************************************************************)
EXTENDS Integers, Sequences, FiniteSets, TLC

\* ----------------- World config (game.js lines 5-39) -----------------
SURFACE_Y_WORLD == 0
MAX_DEPTH_WORLD == -900
ORIGIN_X_MIN == 100
ORIGIN_X_MAX == 900
TARGET_Y_MIN == -500
TARGET_Y_MAX == MAX_DEPTH_WORLD
TARGET_RADIUS_MIN == 5
TARGET_RADIUS_MAX == 20
TARGET_X_MIN == 250
TARGET_X_MAX == 900
DRILL_COST_PER_METER == 300
ANGLE_MIN == -180
ANGLE_MAX == 0
ANGLE_DEFAULT == -90
\* this.drill_speed_mps, assigned once per round and never changed
drill_speed_mps == 900

\* ----------------- Bounds of the model -----------------
\* Math.random() returns k / RandDen for k in RandNums.
RandDen == 16
RandNums == {0, 3}
\* Milliseconds between two animation frames (currentTime - lastTime).
FrameMs == {0, 20}
\* Denominator of the cosine and sine tables.
TrigScale == 1000
\* Angles at which the player fires the drill.
DrillAngles == {-180, -90, -74, 0}
\* The grid reaches MaxLeft units to the left of x = 0: a step that would
\* carry the tip further is absorbed (AddX).
MaxLeft == 300
\* The keys the keydown handler is given.
Keys == {"ArrowLeft", "ArrowRight", " ", "n", "Escape"}

\* One attempt on its own: the angles it is fired at, the milliseconds
\* between its frames, and the origin it starts from.
AttemptAngles == ANGLE_MIN..ANGLE_MAX
AttemptMs == {0, 10}
AttemptOrigin == 500
\* The deepest target: how far to the left of the origin its centre is.
DeepOffset == 19
\* Coordinates of the segment ends, centres and radii of the circles given
\* to lineCircleIntersection on its own.
ProbeCoords == {-8, -5, -4, -3, 0, 3, 4, 5, 8}
ProbeCentres == {<<0, 0>>}
ProbeRadii == {3, 5}
\* The square roots of the discriminants of those calls are below this.
ProbeMaxRoot == 1024
Null == <<>>

VARIABLES
  angle,               \* this.angle, in whole degrees
  origin_x,            \* this.origin_x
  target_x,            \* this.target_x
  target_y,            \* this.target_y
  target_radius,       \* this.target_radius
  state,               \* this.state: "aim", "drilling", "win" or "lose"
  drill_tip,           \* this.drill_tip
  result_point,        \* this.result_point, Null for null
  tries_remaining,     \* this.tries_remaining
  drill_path_length,   \* this.drill_path_length
  total_cost,          \* this.total_cost
  accumulated_cost,    \* this.accumulated_cost
  started,             \* history: startDrill calls that took effect this round
  completed,           \* history: path length of each attempt ended this round
  probe                \* one call of lineCircleIntersection: arguments, result

roundVars == <<origin_x, target_x, target_y, target_radius>>
gameVars == <<angle, origin_x, target_x, target_y, target_radius, state,
              drill_tip, result_point, tries_remaining, drill_path_length,
              total_cost, accumulated_cost>>
vars == <<angle, origin_x, target_x, target_y, target_radius, state,
          drill_tip, result_point, tries_remaining, drill_path_length,
          total_cost, accumulated_cost, started, completed, probe>>

\* ----------------- Arithmetic -----------------
\* n / d rounded to the nearest integer, d > 0.
Round(n, d) == (2 * n + d) \div (2 * d)

\* The largest r in lo..hi with r * r <= n, by bisection.
FloorSqrt[n \in Nat, lo \in Nat, hi \in Nat] ==
  IF lo = hi THEN lo
  ELSE IF ((lo + hi + 1) \div 2) * ((lo + hi + 1) \div 2) <= n
    THEN FloorSqrt[n, (lo + hi + 1) \div 2, hi]
  ELSE FloorSqrt[n, lo, ((lo + hi + 1) \div 2) - 1]

\* Math.sqrt, rounded to the nearest integer.
Sqrt(n) ==
  LET r == FloorSqrt[n, 0, 46340]
  IN IF n - r * r > r THEN r + 1 ELSE r


\* Math.cos(deg2rad(d)) and Math.sin(deg2rad(d)) in units of 1 / TrigScale,
\* for d = 0, -1, ..., -180 (entry 1 - d).
CosTable ==
  <<
    1000, 1000, 999, 999, 998, 996, 995, 993, 990, 988, 985, 982, 978,
    974, 970, 966, 961, 956, 951, 946, 940, 934, 927, 921, 914, 906,
    899, 891, 883, 875, 866, 857, 848, 839, 829, 819, 809, 799, 788,
    777, 766, 755, 743, 731, 719, 707, 695, 682, 669, 656, 643, 629,
    616, 602, 588, 574, 559, 545, 530, 515, 500, 485, 469, 454, 438,
    423, 407, 391, 375, 358, 342, 326, 309, 292, 276, 259, 242, 225,
    208, 191, 174, 156, 139, 122, 105, 87, 70, 52, 35, 17, 0,
    -17, -35, -52, -70, -87, -105, -122, -139, -156, -174, -191, -208, -225,
    -242, -259, -276, -292, -309, -326, -342, -358, -375, -391, -407, -423, -438,
    -454, -469, -485, -500, -515, -530, -545, -559, -574, -588, -602, -616, -629,
    -643, -656, -669, -682, -695, -707, -719, -731, -743, -755, -766, -777, -788,
    -799, -809, -819, -829, -839, -848, -857, -866, -875, -883, -891, -899, -906,
    -914, -921, -927, -934, -940, -946, -951, -956, -961, -966, -970, -974, -978,
    -982, -985, -988, -990, -993, -995, -996, -998, -999, -999, -1000, -1000
  >>

SinTable ==
  <<
    0, -17, -35, -52, -70, -87, -105, -122, -139, -156, -174, -191, -208,
    -225, -242, -259, -276, -292, -309, -326, -342, -358, -375, -391, -407, -423,
    -438, -454, -469, -485, -500, -515, -530, -545, -559, -574, -588, -602, -616,
    -629, -643, -656, -669, -682, -695, -707, -719, -731, -743, -755, -766, -777,
    -788, -799, -809, -819, -829, -839, -848, -857, -866, -875, -883, -891, -899,
    -906, -914, -921, -927, -934, -940, -946, -951, -956, -961, -966, -970, -974,
    -978, -982, -985, -988, -990, -993, -995, -996, -998, -999, -999, -1000, -1000,
    -1000, -999, -999, -998, -996, -995, -993, -990, -988, -985, -982, -978, -974,
    -970, -966, -961, -956, -951, -946, -940, -934, -927, -921, -914, -906, -899,
    -891, -883, -875, -866, -857, -848, -839, -829, -819, -809, -799, -788, -777,
    -766, -755, -743, -731, -719, -707, -695, -682, -669, -656, -643, -629, -616,
    -602, -588, -574, -559, -545, -530, -515, -500, -485, -469, -454, -438, -423,
    -407, -391, -375, -358, -342, -326, -309, -292, -276, -259, -242, -225, -208,
    -191, -174, -156, -139, -122, -105, -87, -70, -52, -35, -17, 0
  >>

Cos(d) == CosTable[1 - d]
Sin(d) == SinTable[1 - d]

\* ----------------- Utilities (game.js lines 58-102) -----------------
Min(x, y) == IF x <= y THEN x ELSE y
Max(x, y) == IF x >= y THEN x ELSE y

clampNone(v, a, b) == v

clamp(v, a, b) == Max(a, Min(b, v))

\* t >= 0.0 && t <= 1.0 for t = num / den.  With den = 0 the quotient is
\* NaN or an infinity and the test is false.
InUnit(num, den) == den > 0 /\ num >= 0 /\ num <= den

lineCircleIntersectionEndOnly(p0, p1, c, r) ==
  LET fx == p1[1] - c[1]
      fy == p1[2] - c[2]
  IN IF fx * fx + fy * fy <= r * r
       THEN [hit |-> TRUE, pt |-> p1]
       ELSE [hit |-> FALSE, pt |-> Null]

lineCircleIntersectionLargerFirst(p0, p1, c, r) ==
  LET x1 == p0[1]
      y1 == p0[2]
      dx == p1[1] - x1
      dy == p1[2] - y1
      fx == x1 - c[1]
      fy == y1 - c[2]
      a == dx * dx + dy * dy
      b == 2 * (fx * dx + fy * dy)
      cterm == fx * fx + fy * fy - r * r
      disc == b * b - 4 * a * cterm
  IN IF disc < 0 THEN [hit |-> FALSE, pt |-> Null]
     ELSE LET discSqrt == Sqrt(disc)
              n1 == (-b) - discSqrt
              n2 == (-b) + discSqrt
          IN IF InUnit(n2, 2 * a)
               THEN [hit |-> TRUE,
                     pt |-> <<x1 + Round(n2 * dx, 2 * a),
                              y1 + Round(n2 * dy, 2 * a)>>]
             ELSE IF InUnit(n1, 2 * a)
               THEN [hit |-> TRUE,
                     pt |-> <<x1 + Round(n1 * dx, 2 * a),
                              y1 + Round(n1 * dy, 2 * a)>>]
             ELSE [hit |-> FALSE, pt |-> Null]

lineCircleIntersectionNoTangent(p0, p1, c, r) ==
  LET x1 == p0[1]
      y1 == p0[2]
      dx == p1[1] - x1
      dy == p1[2] - y1
      fx == x1 - c[1]
      fy == y1 - c[2]
      a == dx * dx + dy * dy
      b == 2 * (fx * dx + fy * dy)
      cterm == fx * fx + fy * fy - r * r
      disc == b * b - 4 * a * cterm
  IN IF disc <= 0 THEN [hit |-> FALSE, pt |-> Null]
     ELSE LET discSqrt == Sqrt(disc)
              n1 == (-b) - discSqrt
              n2 == (-b) + discSqrt
          IN IF InUnit(n1, 2 * a)
               THEN [hit |-> TRUE,
                     pt |-> <<x1 + Round(n1 * dx, 2 * a),
                              y1 + Round(n1 * dy, 2 * a)>>]
             ELSE IF InUnit(n2, 2 * a)
               THEN [hit |-> TRUE,
                     pt |-> <<x1 + Round(n2 * dx, 2 * a),
                              y1 + Round(n2 * dy, 2 * a)>>]
             ELSE [hit |-> FALSE, pt |-> Null]

lineCircleIntersection(p0, p1, c, r) ==
  LET x1 == p0[1]
      y1 == p0[2]
      x2 == p1[1]
      y2 == p1[2]
      cx == c[1]
      cy == c[2]
      dx == x2 - x1
      dy == y2 - y1
      fx == x1 - cx
      fy == y1 - cy
      a == dx * dx + dy * dy
      b == 2 * (fx * dx + fy * dy)
      cterm == fx * fx + fy * fy - r * r
      disc == b * b - 4 * a * cterm
  IN IF disc < 0 THEN [hit |-> FALSE, pt |-> Null]
     ELSE LET discSqrt == Sqrt(disc)
              n1 == (-b) - discSqrt    \* t1 = n1 / (2 * a)
              n2 == (-b) + discSqrt    \* t2 = n2 / (2 * a)
          IN IF InUnit(n1, 2 * a)
               THEN [hit |-> TRUE,
                     pt |-> <<x1 + Round(n1 * dx, 2 * a),
                              y1 + Round(n1 * dy, 2 * a)>>]
             ELSE IF InUnit(n2, 2 * a)
               THEN [hit |-> TRUE,
                     pt |-> <<x1 + Round(n2 * dx, 2 * a),
                              y1 + Round(n2 * dy, 2 * a)>>]
             ELSE [hit |-> FALSE, pt |-> Null]

\* ----------------- Game (game.js lines 105-183) -----------------
\* Math.random() * (hi - lo) + lo, for Math.random() = k / RandDen.
RandomInNoOffset(k, lo, hi) == Round(k * (hi - lo), RandDen)

RandomIn(k, lo, hi) == Round(k * (hi - lo), RandDen) + lo

resetRoundKeepCost(r1, r2, r3, r4) ==
  /\ origin_x' = RandomIn(r1, ORIGIN_X_MIN, ORIGIN_X_MAX)
  /\ target_x' = RandomIn(r2, TARGET_X_MIN, TARGET_X_MAX)
  /\ target_y' = RandomIn(r3, TARGET_Y_MIN, TARGET_Y_MAX)
  /\ target_radius' = RandomIn(r4, TARGET_RADIUS_MIN, TARGET_RADIUS_MAX)
  /\ state' = "aim"
  /\ drill_tip' = <<origin_x', SURFACE_Y_WORLD>>
  /\ result_point' = Null
  /\ tries_remaining' = 3
  /\ drill_path_length' = 0
  /\ accumulated_cost' = 0
  /\ UNCHANGED <<angle, total_cost>>

resetRoundKeepResult(r1, r2, r3, r4) ==
  /\ origin_x' = RandomIn(r1, ORIGIN_X_MIN, ORIGIN_X_MAX)
  /\ target_x' = RandomIn(r2, TARGET_X_MIN, TARGET_X_MAX)
  /\ target_y' = RandomIn(r3, TARGET_Y_MIN, TARGET_Y_MAX)
  /\ target_radius' = RandomIn(r4, TARGET_RADIUS_MIN, TARGET_RADIUS_MAX)
  /\ state' = "aim"
  /\ drill_tip' = <<origin_x', SURFACE_Y_WORLD>>
  /\ tries_remaining' = 3
  /\ drill_path_length' = 0
  /\ total_cost' = 0
  /\ accumulated_cost' = 0
  /\ UNCHANGED <<angle, result_point>>

resetRound(r1, r2, r3, r4) ==
  /\ origin_x' = RandomIn(r1, ORIGIN_X_MIN, ORIGIN_X_MAX)
  /\ target_x' = RandomIn(r2, TARGET_X_MIN, TARGET_X_MAX)
  /\ target_y' = RandomIn(r3, TARGET_Y_MIN, TARGET_Y_MAX)
  /\ target_radius' = RandomIn(r4, TARGET_RADIUS_MIN, TARGET_RADIUS_MAX)
  /\ state' = "aim"
  /\ drill_tip' = <<origin_x', SURFACE_Y_WORLD>>
  /\ result_point' = Null
  /\ tries_remaining' = 3
  /\ drill_path_length' = 0
  /\ total_cost' = 0
  /\ accumulated_cost' = 0
  /\ UNCHANGED angle

getOrigin == <<origin_x, SURFACE_Y_WORLD>>

startDrillKeepPath ==
  IF state # "aim" THEN UNCHANGED gameVars
  ELSE /\ state' = "drilling"
       /\ drill_tip' = getOrigin
       /\ result_point' = Null
       /\ UNCHANGED <<angle, roundVars, tries_remaining, total_cost,
                      accumulated_cost, drill_path_length>>

startDrillNewOrigin ==
  IF state # "aim" THEN UNCHANGED gameVars
  ELSE /\ state' = "drilling"
       /\ origin_x' = ORIGIN_X_MAX
       /\ drill_tip' = <<origin_x', SURFACE_Y_WORLD>>
       /\ drill_path_length' = 0
       /\ result_point' = Null
       /\ UNCHANGED <<angle, target_x, target_y, target_radius,
                      tries_remaining, total_cost, accumulated_cost>>

startDrill ==
  IF state # "aim" THEN UNCHANGED gameVars
  ELSE /\ state' = "drilling"
       /\ drill_tip' = getOrigin
       /\ result_point' = Null
       /\ drill_path_length' = 0
       /\ UNCHANGED <<angle, roundVars, tries_remaining, total_cost,
                      accumulated_cost>>

\* update, the branch taken on a hit (lines 156-167).
updateHitDecr(ipt) ==
  LET final_dx == ipt[1] - drill_tip[1]
      final_dy == ipt[2] - drill_tip[2]
      final_segment == Sqrt(final_dx * final_dx + final_dy * final_dy)
  IN /\ drill_path_length' = drill_path_length + final_segment
     /\ drill_tip' = ipt
     /\ state' = "win"
     /\ result_point' = ipt
     /\ total_cost' = drill_path_length' * DRILL_COST_PER_METER
     /\ accumulated_cost' = accumulated_cost + total_cost'
     /\ tries_remaining' = tries_remaining - 1
     /\ UNCHANGED <<angle, roundVars>>

updateHitOverwrite(ipt) ==
  LET final_dx == ipt[1] - drill_tip[1]
      final_dy == ipt[2] - drill_tip[2]
      final_segment == Sqrt(final_dx * final_dx + final_dy * final_dy)
  IN /\ drill_path_length' = drill_path_length + final_segment
     /\ drill_tip' = ipt
     /\ state' = "win"
     /\ result_point' = ipt
     /\ total_cost' = drill_path_length' * DRILL_COST_PER_METER
     /\ accumulated_cost' = total_cost'
     /\ UNCHANGED <<angle, roundVars, tries_remaining>>

updateHitStaleTip(ipt) ==
  LET final_dx == ipt[1] - drill_tip[1]
      final_dy == ipt[2] - drill_tip[2]
      final_segment == Sqrt(final_dx * final_dx + final_dy * final_dy)
  IN /\ drill_path_length' = drill_path_length + final_segment
     /\ drill_tip' = drill_tip
     /\ state' = "win"
     /\ result_point' = ipt
     /\ total_cost' = drill_path_length' * DRILL_COST_PER_METER
     /\ accumulated_cost' = accumulated_cost + total_cost'
     /\ UNCHANGED <<angle, roundVars, tries_remaining>>

updateHit(ipt) ==
  LET final_dx == ipt[1] - drill_tip[1]
      final_dy == ipt[2] - drill_tip[2]
      final_segment == Sqrt(final_dx * final_dx + final_dy * final_dy)
  IN /\ drill_path_length' = drill_path_length + final_segment
     /\ drill_tip' = ipt
     /\ state' = "win"
     /\ result_point' = ipt
     /\ total_cost' = drill_path_length' * DRILL_COST_PER_METER
     /\ accumulated_cost' = accumulated_cost + total_cost'
     /\ UNCHANGED <<angle, roundVars, tries_remaining>>

\* The test of line 175 on the tip p.
outOfBoundsStrict(p) == p[2] < MAX_DEPTH_WORLD \/ p[1] > 1100

outOfBoundsWide(p) == p[2] <= MAX_DEPTH_WORLD \/ p[1] > 1118

outOfBounds(p) == p[2] <= MAX_DEPTH_WORLD \/ p[1] > 1100

\* update, the rest of the body when there is no hit (lines 169-181).
updateAdvanceKeepTries(nx, ny) ==
  LET dx == nx - drill_tip[1]
      dy == ny - drill_tip[2]
      segment_length == Sqrt(dx * dx + dy * dy)
  IN /\ drill_path_length' = drill_path_length + segment_length
     /\ drill_tip' = <<nx, ny>>
     /\ IF outOfBounds(drill_tip')
          THEN /\ total_cost' = drill_path_length' * DRILL_COST_PER_METER
               /\ accumulated_cost' = accumulated_cost + total_cost'
               /\ state' = "lose"
               /\ result_point' = Null
               /\ tries_remaining' = tries_remaining
          ELSE UNCHANGED <<total_cost, accumulated_cost, state,
                           result_point, tries_remaining>>
     /\ UNCHANGED <<angle, roundVars>>

updateAdvanceBacktrack(nx, ny) ==
  LET bx == Min(nx, 1101)
      by == Max(ny, MAX_DEPTH_WORLD)
      dx == bx - drill_tip[1]
      dy == by - drill_tip[2]
      segment_length == Sqrt(dx * dx + dy * dy)
  IN /\ drill_path_length' = drill_path_length + segment_length
     /\ drill_tip' = <<bx, by>>
     /\ IF outOfBounds(drill_tip')
          THEN /\ total_cost' = drill_path_length' * DRILL_COST_PER_METER
               /\ accumulated_cost' = accumulated_cost + total_cost'
               /\ state' = "lose"
               /\ result_point' = Null
               /\ tries_remaining' = tries_remaining - 1
          ELSE UNCHANGED <<total_cost, accumulated_cost, state,
                           result_point, tries_remaining>>
     /\ UNCHANGED <<angle, roundVars>>

updateAdvanceDepthOnly(nx, ny) ==
  LET dy == ny - drill_tip[2]
      segment_length == -dy
  IN /\ drill_path_length' = drill_path_length + segment_length
     /\ drill_tip' = <<nx, ny>>
     /\ IF outOfBounds(drill_tip')
          THEN /\ total_cost' = drill_path_length' * DRILL_COST_PER_METER
               /\ accumulated_cost' = accumulated_cost + total_cost'
               /\ state' = "lose"
               /\ result_point' = Null
               /\ tries_remaining' = tries_remaining - 1
          ELSE UNCHANGED <<total_cost, accumulated_cost, state,
                           result_point, tries_remaining>>
     /\ UNCHANGED <<angle, roundVars>>

updateAdvanceRunningCost(nx, ny) ==
  LET dx == nx - drill_tip[1]
      dy == ny - drill_tip[2]
      segment_length == Sqrt(dx * dx + dy * dy)
  IN /\ drill_path_length' = drill_path_length + segment_length
     /\ drill_tip' = <<nx, ny>>
     /\ total_cost' = drill_path_length' * DRILL_COST_PER_METER
     /\ IF outOfBounds(drill_tip')
          THEN /\ accumulated_cost' = accumulated_cost + total_cost'
               /\ state' = "lose"
               /\ result_point' = Null
               /\ tries_remaining' = tries_remaining - 1
          ELSE UNCHANGED <<accumulated_cost, state, result_point,
                           tries_remaining>>
     /\ UNCHANGED <<angle, roundVars>>

updateAdvance(nx, ny) ==
  LET dx == nx - drill_tip[1]
      dy == ny - drill_tip[2]
      segment_length == Sqrt(dx * dx + dy * dy)
  IN /\ drill_path_length' = drill_path_length + segment_length
     /\ drill_tip' = <<nx, ny>>
     /\ IF outOfBounds(drill_tip')
          THEN /\ total_cost' = drill_path_length' * DRILL_COST_PER_METER
               /\ accumulated_cost' = accumulated_cost + total_cost'
               /\ state' = "lose"
               /\ result_point' = Null
               /\ tries_remaining' = tries_remaining - 1
          ELSE UNCHANGED <<total_cost, accumulated_cost, state,
                           result_point, tries_remaining>>
     /\ UNCHANGED <<angle, roundVars>>

\* drill_speed_mps * dt, for dt = ms / 1000 seconds.
StepOfAtLeastOne(ms) == Max(1, Round(drill_speed_mps * ms, 1000))

StepOf(ms) == Round(drill_speed_mps * ms, 1000)

\* x + d on the tip's x.  In binary64 the sum is x again once d is below
\* half an ulp of x, which a step to the left reaches only past 2^57: the
\* code has no bound on that side.  The grid absorbs the step at MaxLeft,
\* which keeps the products of lineCircleIntersection within 32 bits.
AddX(x, d) == IF x + d < -MaxLeft THEN x ELSE x + d

\* [nx, ny] of lines 142-147.
NextTip(ms) ==
  LET vx == Cos(angle)
      vy == Sin(angle)
      step == StepOf(ms)
  IN <<AddX(drill_tip[1], Round(vx * step, TrigScale)),
       drill_tip[2] + Round(vy * step, TrigScale)>>

updateBoundsFirst(ms) ==
  IF state # "drilling" THEN UNCHANGED gameVars
  ELSE LET n == NextTip(ms)
           res == lineCircleIntersection(drill_tip, n,
                                         <<target_x, target_y>>,
                                         target_radius)
       IN IF res.hit /\ ~outOfBounds(n) THEN updateHit(res.pt)
                                        ELSE updateAdvance(n[1], n[2])

update(ms) ==
  IF state # "drilling" THEN UNCHANGED gameVars
  ELSE LET n == NextTip(ms)
           res == lineCircleIntersection(drill_tip, n,
                                         <<target_x, target_y>>,
                                         target_radius)
       IN IF res.hit THEN updateHit(res.pt)
                     ELSE updateAdvance(n[1], n[2])

\* ----------------- Callbacks (game.js lines 650-728) -----------------
\* gameLoop: dt = (currentTime - lastTime) / 1000, then game.update(dt).
gameLoop == \E ms \in FrameMs : update(ms)

drillBtnClickAnyTries ==
  IF state = "aim" THEN startDrill
  ELSE IF state = "lose"
    THEN /\ state' = "aim"
         /\ UNCHANGED <<angle, roundVars, drill_tip, result_point,
                        tries_remaining, drill_path_length, total_cost,
                        accumulated_cost>>
  ELSE UNCHANGED gameVars

drillBtnClickResumeDrilling ==
  IF state = "aim" THEN startDrill
  ELSE IF state = "lose" /\ tries_remaining > 0
    THEN /\ state' = "drilling"
         /\ UNCHANGED <<angle, roundVars, drill_tip, result_point,
                        tries_remaining, drill_path_length, total_cost,
                        accumulated_cost>>
  ELSE UNCHANGED gameVars

drillBtnClickAfterWin ==
  IF state = "aim" THEN startDrill
  ELSE IF state = "win" \/ (state = "lose" /\ tries_remaining > 0)
    THEN /\ state' = "aim"
         /\ UNCHANGED <<angle, roundVars, drill_tip, result_point,
                        tries_remaining, drill_path_length, total_cost,
                        accumulated_cost>>
  ELSE UNCHANGED gameVars

drillBtnClick ==
  IF state = "aim" THEN startDrill
  ELSE IF state = "lose" /\ tries_remaining > 0
    THEN /\ state' = "aim"
         /\ UNCHANGED <<angle, roundVars, drill_tip, result_point,
                        tries_remaining, drill_path_length, total_cost,
                        accumulated_cost>>
  ELSE UNCHANGED gameVars

\* The test of lines 696 and 724.
canReset == state = "win" \/ state = "lose" \/ state = "aim"

newRoundBtnClickAlways ==
  \E r1, r2, r3, r4 \in RandNums : resetRound(r1, r2, r3, r4)

newRoundBtnClick ==
  IF canReset
    THEN \E r1, r2, r3, r4 \in RandNums : resetRound(r1, r2, r3, r4)
    ELSE UNCHANGED gameVars

\* The arrow keys of lines 708-714; Escape only closes the help modal.
keydownArrowsAnyState(key) ==
  IF key = "ArrowLeft"
    THEN angle' = clamp(angle - 1, ANGLE_MIN, ANGLE_MAX)
  ELSE IF key = "ArrowRight"
    THEN angle' = clamp(angle + 1, ANGLE_MIN, ANGLE_MAX)
  ELSE UNCHANGED angle

keydownArrows(key) ==
  IF key # "Escape" /\ state = "aim"
    THEN IF key = "ArrowLeft"
           THEN angle' = clamp(angle - 1, ANGLE_MIN, ANGLE_MAX)
         ELSE IF key = "ArrowRight"
           THEN angle' = clamp(angle + 1, ANGLE_MIN, ANGLE_MAX)
         ELSE UNCHANGED angle
    ELSE UNCHANGED angle

keydown(key) ==
  IF key = " "
    THEN IF state = "aim" THEN startDrill
         ELSE IF state = "lose" /\ tries_remaining > 0
           THEN /\ state' = "aim"
                /\ UNCHANGED <<angle, roundVars, drill_tip, result_point,
                               tries_remaining, drill_path_length,
                               total_cost, accumulated_cost>>
         ELSE UNCHANGED gameVars
  ELSE IF (key = "n" \/ key = "N") /\ canReset
    THEN \E r1, r2, r3, r4 \in RandNums : resetRound(r1, r2, r3, r4)
  ELSE /\ keydownArrows(key)
       /\ UNCHANGED <<roundVars, state, drill_tip, result_point,
                      tries_remaining, drill_path_length, total_cost,
                      accumulated_cost>>

\* ----------------- Specification -----------------
\* The history variables after a step; reset is whether the step ran
\* resetRound.
History(reset) ==
  /\ started' = IF reset THEN 0
                ELSE IF state = "aim" /\ state' = "drilling"
                  THEN started + 1
                ELSE started
  /\ completed' = IF reset THEN <<>>
                  ELSE IF state = "drilling" /\ state' \in {"win", "lose"}
                    THEN Append(completed, drill_path_length')
                  ELSE completed

\* No call of lineCircleIntersection on its own: the game calls it from
\* update only.
Unprobed ==
  [p0 |-> <<0, 0>>, p1 |-> <<0, 0>>, c |-> <<0, 0>>, r |-> 0,
   applied |-> FALSE, res |-> [hit |-> FALSE, pt |-> Null]]

\* new Game(): the constructor sets the angle and calls resetRound.
Init ==
  /\ angle = ANGLE_DEFAULT
  /\ \E r1, r2, r3, r4 \in RandNums :
       /\ origin_x = RandomIn(r1, ORIGIN_X_MIN, ORIGIN_X_MAX)
       /\ target_x = RandomIn(r2, TARGET_X_MIN, TARGET_X_MAX)
       /\ target_y = RandomIn(r3, TARGET_Y_MIN, TARGET_Y_MAX)
       /\ target_radius = RandomIn(r4, TARGET_RADIUS_MIN, TARGET_RADIUS_MAX)
  /\ state = "aim"
  /\ drill_tip = <<origin_x, SURFACE_Y_WORLD>>
  /\ result_point = Null
  /\ tries_remaining = 3
  /\ drill_path_length = 0
  /\ total_cost = 0
  /\ accumulated_cost = 0
  /\ started = 0
  /\ completed = <<>>
  /\ probe = Unprobed

\* The player fires only at the angles of DrillAngles.
MayFire == state = "aim" => angle \in DrillAngles

Frame == gameLoop /\ History(FALSE) /\ UNCHANGED probe

ClickDrill == MayFire /\ drillBtnClick /\ History(FALSE) /\ UNCHANGED probe

ClickNewRound == newRoundBtnClick /\ History(canReset) /\ UNCHANGED probe

KeyDown ==
  \E key \in Keys :
    /\ key = " " => MayFire
    /\ keydown(key)
    /\ History((key = "n" \/ key = "N") /\ canReset)
    /\ UNCHANGED probe

Next == Frame \/ ClickDrill \/ ClickNewRound \/ KeyDown

Spec == Init /\ [][Next]_vars

\* Frames keep coming: requestAnimationFrame reschedules gameLoop at the end
\* of every call.
FairSpec == Spec /\ WF_vars(Frame)

\* ----------------- lineCircleIntersection on its own -----------------
Dist2(p, q) == (p[1] - q[1]) * (p[1] - q[1]) + (p[2] - q[2]) * (p[2] - q[2])

\* The quadratic of lines 80-83 for the segment p0 -> p1 and the circle
\* (c, r): |p0 + t (p1 - p0) - c|^2 = r^2 is a t^2 + b t + cterm = 0.
QuadA(p0, p1) == Dist2(p0, p1)
QuadB(p0, p1, c) ==
  2 * ((p0[1] - c[1]) * (p1[1] - p0[1]) + (p0[2] - c[2]) * (p1[2] - p0[2]))
QuadC(p0, c, r) == Dist2(p0, c) - r * r
Disc(p0, p1, c, r) ==
  QuadB(p0, p1, c) * QuadB(p0, p1, c) - 4 * QuadA(p0, p1) * QuadC(p0, c, r)

IsSquare(n) == \E s \in 0..ProbeMaxRoot : s * s = n

ProbePoints == ProbeCoords \X ProbeCoords

\* The arguments of the calls: segments and circles on the points of
\* ProbePoints whose discriminant is negative or a perfect square, on which
\* Math.sqrt is exact and the grid computes the roots the code computes.
ProbeInputs ==
  {in \in [p0 : ProbePoints, p1 : ProbePoints, c : ProbeCentres,
           r : ProbeRadii] :
     \/ Disc(in.p0, in.p1, in.c, in.r) < 0
     \/ IsSquare(Disc(in.p0, in.p1, in.c, in.r))}

\* A game as constructed, and the arguments of one call.
ProbeInit ==
  /\ angle = ANGLE_DEFAULT
  /\ origin_x = ORIGIN_X_MIN
  /\ target_x = TARGET_X_MIN
  /\ target_y = TARGET_Y_MIN
  /\ target_radius = TARGET_RADIUS_MIN
  /\ state = "aim"
  /\ drill_tip = <<origin_x, SURFACE_Y_WORLD>>
  /\ result_point = Null
  /\ tries_remaining = 3
  /\ drill_path_length = 0
  /\ total_cost = 0
  /\ accumulated_cost = 0
  /\ started = 0
  /\ completed = <<>>
  /\ \E in \in ProbeInputs :
       probe = [p0 |-> in.p0, p1 |-> in.p1, c |-> in.c, r |-> in.r,
                applied |-> FALSE, res |-> [hit |-> FALSE, pt |-> Null]]

\* The call returns.
ProbeApply ==
  /\ ~probe.applied
  /\ probe' = [probe EXCEPT
                 !.applied = TRUE,
                 !.res = lineCircleIntersection(probe.p0, probe.p1, probe.c,
                                                probe.r)]
  /\ UNCHANGED <<gameVars, started, completed>>

ProbeNext == ProbeApply

ProbeSpec == ProbeInit /\ [][ProbeNext]_vars

\* ----------------- One attempt on its own -----------------
\* A game whose round has its origin at AttemptOrigin and its target at the
\* near end of its ranges, after the angle was set with the arrow keys and
\* startDrill was called.
AttemptInit ==
  /\ angle \in AttemptAngles
  /\ origin_x = AttemptOrigin
  /\ target_x = TARGET_X_MIN
  /\ target_y = TARGET_Y_MIN
  /\ target_radius = TARGET_RADIUS_MAX
  /\ state = "drilling"
  /\ drill_tip = getOrigin
  /\ result_point = Null
  /\ tries_remaining = 3
  /\ drill_path_length = 0
  /\ total_cost = 0
  /\ accumulated_cost = 0
  /\ started = 1
  /\ completed = <<>>
  /\ probe = Unprobed

\* gameLoop with the frame times of AttemptMs.
AttemptFrame ==
  /\ \E ms \in AttemptMs : update(ms)
  /\ History(FALSE)
  /\ UNCHANGED probe

AttemptNext == AttemptFrame

AttemptSpec == AttemptInit /\ [][AttemptNext]_vars

\* ----------------- One attempt at the deepest target -----------------
\* As AttemptInit, for a round whose target is the largest one, centred on
\* the depth bound, DeepOffset to the left of the origin.
DeepInit ==
  /\ angle \in AttemptAngles
  /\ origin_x = AttemptOrigin
  /\ target_x = AttemptOrigin - DeepOffset
  /\ target_y = TARGET_Y_MAX
  /\ target_radius = TARGET_RADIUS_MAX
  /\ state = "drilling"
  /\ drill_tip = getOrigin
  /\ result_point = Null
  /\ tries_remaining = 3
  /\ drill_path_length = 0
  /\ total_cost = 0
  /\ accumulated_cost = 0
  /\ started = 1
  /\ completed = <<>>
  /\ probe = Unprobed

DeepNext == AttemptFrame

DeepSpec == DeepInit /\ [][DeepNext]_vars

\* ----------------- Properties -----------------
Entering(s) == state # s /\ state' = s

\* A step that ran resetRound, as the history variables record it.
RoundStarted ==
  /\ started' = 0
  /\ completed' = <<>>
  /\ state' = "aim"
  /\ tries_remaining' = 3
  /\ accumulated_cost' = 0
  /\ total_cost' = 0


RECURSIVE CostOf(_)
\* The sum of path length * DRILL_COST_PER_METER over the attempts of s.
CostOf(s) ==
  IF s = <<>> THEN 0
  ELSE Head(s) * DRILL_COST_PER_METER + CostOf(Tail(s))

\* The hit test update runs on a frame of ms milliseconds.
HitTest(ms) ==
  lineCircleIntersection(drill_tip, NextTip(ms), <<target_x, target_y>>,
                         target_radius)

\* C1: tries remaining is 3 until the first attempt of a round starts,
\* drops by exactly 1 on every step into lose, is unchanged by a step into
\* win, changes on no other step but a round start, and is never below 0.
C1_TriesAccounting ==
  /\ [](tries_remaining \in 0..3 /\ (started = 0 => tries_remaining = 3))
  /\ [][/\ Entering("lose") => tries_remaining' = tries_remaining - 1
        /\ Entering("win") => tries_remaining' = tries_remaining
        /\ tries_remaining' # tries_remaining
             => Entering("lose") \/ RoundStarted]_vars

\* A win on the third attempt: two losses took a try each, the win none.
C1_Witness == state = "win" /\ started = 3 /\ tries_remaining = 1

\* C2: from lose with no tries left a step changes nothing or is a round
\* start; the DRILL button and the Space key leave the state lose.
C2_NoResumeWithoutTries ==
  [][(state = "lose" /\ tries_remaining = 0)
       => /\ UNCHANGED gameVars \/ RoundStarted
          /\ (drillBtnClick \/ keydown(" ")) => state' = "lose"]_vars

C2_Witness == state = "lose" /\ tries_remaining = 0

\* C3: a drilling attempt is eventually won or lost, frames being
\* delivered fairly.
C3_DrillingEnds == (state = "drilling") ~> (state \in {"win", "lose"})

\* C4: in drilling the click and key handlers change no field of the game;
\* a step that changes one is a step of update.
C4_NoCommandWhileDrilling ==
  [][state = "drilling"
       => /\ (drillBtnClick \/ newRoundBtnClick
                \/ \E key \in Keys : keydown(key)) => UNCHANGED gameVars
          /\ gameVars' # gameVars => \E ms \in FrameMs : update(ms)]_vars

C4_Witness == state = "drilling" /\ drill_path_length > 0 /\ started = 2

\* C5: the arrow keys leave the angle alone in drilling, win and lose; a
\* step that changes the angle starts and ends in aim.
C5_AngleOnlyInAim ==
  [][/\ angle' # angle => state = "aim" /\ state' = "aim"
     /\ (state # "aim" /\ (keydown("ArrowLeft") \/ keydown("ArrowRight")))
          => angle' = angle]_vars

C5_Witness == state = "win" /\ angle = -74

\* C6: the angle is always within [ANGLE_MIN, ANGLE_MAX]; in aim an arrow
\* key moves it by one degree, or leaves it on the limit it would cross.
C6_AngleRange ==
  /\ [](angle \in ANGLE_MIN..ANGLE_MAX)
  /\ [][state = "aim"
          => /\ keydown("ArrowLeft")
                  => angle' = IF angle - 1 < ANGLE_MIN THEN ANGLE_MIN
                                                       ELSE angle - 1
             /\ keydown("ArrowRight")
                  => angle' = IF angle + 1 > ANGLE_MAX THEN ANGLE_MAX
                                                       ELSE angle + 1]_vars

C6_Witness == state = "aim" /\ angle = ANGLE_MIN

\* C7: accumulated cost is the sum of path length * cost per meter over the
\* attempts ended in this round; it is 0 when a round starts, only a round
\* start lowers it, and only the end of an attempt raises it.
C7_AccumulatedCost ==
  /\ [](/\ accumulated_cost = CostOf(completed)
        /\ started = 0 => accumulated_cost = 0)
  /\ [][/\ accumulated_cost' < accumulated_cost => RoundStarted
        /\ accumulated_cost' > accumulated_cost
             => /\ state = "drilling" /\ state' \in {"win", "lose"}
                /\ accumulated_cost' = accumulated_cost
                     + drill_path_length' * DRILL_COST_PER_METER]_vars

C7_Witness ==
  state = "win" /\ Len(completed) = 3 /\ accumulated_cost > total_cost

\* C8: startDrill takes effect at most 3 times in a round, and in aim and
\* in drilling at least one try remains.
C8_ThreeAttempts ==
  /\ started <= 3
  /\ state \in {"aim", "drilling"} => tries_remaining >= 1

C8_Witness == state = "drilling" /\ started = 3

\* C9: a frame whose segment hits the target ends in win; the tip and the
\* result point are the intersection point, which lies on the circle (to
\* the rounding of the grid), the path grows by the distance from the old
\* tip to that point, total cost is path length * cost per meter and is
\* added to accumulated cost, and tries remaining is unchanged.
C9_HitOutcome ==
  [][state = "drilling"
       => \A ms \in FrameMs :
            (update(ms) /\ HitTest(ms).hit)
              => LET ipt == HitTest(ms).pt
                     c == <<target_x, target_y>>
                 IN /\ state' = "win"
                    /\ result_point' = ipt
                    /\ drill_tip' = ipt
                    /\ Dist2(ipt, c) >= (target_radius - 2) * (target_radius - 2)
                    /\ Dist2(ipt, c) <= (target_radius + 2) * (target_radius + 2)
                    /\ drill_path_length'
                         = drill_path_length + Sqrt(Dist2(drill_tip, ipt))
                    /\ Dist2(drill_tip, ipt) <= Dist2(drill_tip, NextTip(ms))
                    /\ total_cost' = drill_path_length' * DRILL_COST_PER_METER
                    /\ accumulated_cost' = accumulated_cost + total_cost'
                    /\ tries_remaining' = tries_remaining]_vars

C9_Witness ==
  /\ state = "win"
  /\ angle = -74
  /\ result_point = drill_tip
  /\ drill_tip[2] > target_y

\* C10: a drilling frame without a hit ends in lose when the new tip is at
\* or below the depth bound or beyond the lateral bound, and in drilling
\* otherwise; on the loss the result point is cleared and the attempt's
\* cost is computed and added to accumulated cost.
C10_MissOutcome ==
  [][state = "drilling"
       => \A ms \in FrameMs :
            (update(ms) /\ ~HitTest(ms).hit)
              => LET n == NextTip(ms)
                 IN IF n[2] <= MAX_DEPTH_WORLD \/ n[1] > 1100
                      THEN /\ state' = "lose"
                           /\ result_point' = Null
                           /\ total_cost'
                                = drill_path_length' * DRILL_COST_PER_METER
                           /\ accumulated_cost' = accumulated_cost + total_cost'
                      ELSE state' = "drilling"]_vars

C10_Witness ==
  state = "lose" /\ drill_tip[1] > 1100 /\ drill_tip[2] > MAX_DEPTH_WORLD

\* C11: a step into drilling starts in aim and puts the tip on the round's
\* origin at the surface, the path length at 0 and the result point at
\* absent, leaving angle, tries, costs and round parameters; startDrill in
\* any other state changes nothing.
C11_StartDrill ==
  [][/\ Entering("drilling")
          => /\ state = "aim"
             /\ drill_tip' = <<origin_x, SURFACE_Y_WORLD>>
             /\ drill_path_length' = 0
             /\ result_point' = Null
             /\ UNCHANGED <<angle, roundVars, tries_remaining, total_cost,
                            accumulated_cost>>
     /\ (state = "aim" /\ (drillBtnClick \/ keydown(" ")))
          => state' = "drilling"
     /\ (state # "aim" /\ startDrill) => UNCHANGED gameVars]_vars

\* The second attempt of a round has just started: the tip is back on the
\* origin and the path length of the lost attempt is gone.
C11_Witness ==
  /\ state = "drilling"
  /\ started = 2
  /\ drill_path_length = 0
  /\ drill_tip = <<origin_x, SURFACE_Y_WORLD>>
  /\ total_cost > 0

\* A step of the NEW ROUND button or the N key in a state where resetRound
\* is accepted.
NewRoundStep == canReset /\ (newRoundBtnClick \/ keydown("n"))

\* What resetRound does to everything but the angle: the round parameters
\* are drawn anew within their ranges and the session and attempt fields
\* are reset.
RoundReplaced ==
  /\ origin_x' \in ORIGIN_X_MIN..ORIGIN_X_MAX
  /\ target_x' \in TARGET_X_MIN..TARGET_X_MAX
  /\ target_y' \in TARGET_Y_MAX..TARGET_Y_MIN
  /\ target_radius' \in TARGET_RADIUS_MIN..TARGET_RADIUS_MAX
  /\ tries_remaining' = 3
  /\ accumulated_cost' = 0
  /\ total_cost' = 0
  /\ state' = "aim"
  /\ drill_tip' = <<origin_x', SURFACE_Y_WORLD>>
  /\ drill_path_length' = 0
  /\ result_point' = Null

\* C12 as claimed: resetRound, accepted in aim, win and lose, replaces the
\* round and session state and resets every attempt field, the angle
\* included (back to ANGLE_DEFAULT).
C12_ResetsAngleToo ==
  [][NewRoundStep => RoundReplaced /\ angle' = ANGLE_DEFAULT]_vars

\* C12 as amended: resetRound, accepted in aim, win and lose, replaces the
\* round and session state and resets the state tag, the tip, the path
\* length and the result point; the angle is left as it was.
C12_ResetKeepsAngle ==
  [][NewRoundStep => RoundReplaced /\ angle' = angle]_vars

\* A fresh round whose angle is not the default: the round was started
\* after the player had turned the handle.
C12_Witness ==
  /\ state = "aim"
  /\ started = 0
  /\ tries_remaining = 3
  /\ drill_tip = <<origin_x, SURFACE_Y_WORLD>>
  /\ angle = ANGLE_MAX

\* A step of the DRILL button or the Space key.
DrillOrSpaceStep == drillBtnClick \/ keydown(" ")

\* C13: the DRILL button and the Space key resume only from lose with a
\* try left: the state becomes aim and nothing else changes, so the next
\* attempt needs a further startDrill; a step from lose to aim that is not
\* a round start is such a resume.
C13_Resume ==
  [][/\ (state = "lose" /\ DrillOrSpaceStep)
          => IF tries_remaining > 0
               THEN /\ state' = "aim"
                    /\ UNCHANGED <<angle, roundVars, drill_tip, result_point,
                                   tries_remaining, drill_path_length,
                                   total_cost, accumulated_cost>>
               ELSE UNCHANGED gameVars
     /\ (state \in {"drilling", "win"} /\ DrillOrSpaceStep)
          => UNCHANGED gameVars
     /\ (state = "lose" /\ state' = "aim" /\ ~RoundStarted)
          => /\ tries_remaining > 0
             /\ UNCHANGED <<angle, roundVars, tries_remaining, total_cost,
                            accumulated_cost>>
     /\ (state = "lose" => state' # "drilling")]_vars

\* Back in aim after one miss: the tip and the path length are still those
\* of the lost attempt.
C13_Witness ==
  /\ state = "aim"
  /\ started = 1
  /\ tries_remaining = 2
  /\ drill_path_length > 0
  /\ accumulated_cost = total_cost

\* C14: from win a step changes no field of the game unless it is a round
\* start, which ends in aim; frames, the DRILL button and the keys other
\* than N change nothing.
C14_WinIsTerminal ==
  [][state = "win"
       => /\ UNCHANGED gameVars \/ RoundStarted
          /\ (gameLoop \/ drillBtnClick
                \/ \E key \in Keys \ {"n"} : keydown(key))
               => UNCHANGED gameVars]_vars

C14_Witness == state = "win" /\ tries_remaining = 3 /\ result_point # Null

\* The ranges of target X, target radius and origin X, ends included.
InConfiguredRanges ==
  /\ target_x \in TARGET_X_MIN..TARGET_X_MAX
  /\ target_radius \in TARGET_RADIUS_MIN..TARGET_RADIUS_MAX
  /\ origin_x \in ORIGIN_X_MIN..ORIGIN_X_MAX

\* C15 as claimed: in every state target Y is strictly below the minimum
\* depth bound and strictly above the maximum world depth, target X is in
\* [250, 900], the radius in [5, 20] and origin X in [100, 900].
C15_StrictDepth ==
  /\ target_y < TARGET_Y_MIN
  /\ target_y > MAX_DEPTH_WORLD
  /\ InConfiguredRanges

\* C15 as amended: in every state target Y is in [-900, -500] with both
\* ends allowed, target X is in [250, 900], the radius in [5, 20] and
\* origin X in [100, 900].
C15_RoundBounds ==
  /\ target_y >= MAX_DEPTH_WORLD
  /\ target_y <= TARGET_Y_MIN
  /\ InConfiguredRanges

\* A round won on a target drawn at the very top of its depth range.
C15_Witness == state = "win" /\ target_y = TARGET_Y_MIN /\ target_radius > TARGET_RADIUS_MIN

\* The segment p0 -> p1 carries the tip from one side of the circle (c, r)
\* to the other: both ends lie outside the circle, the point of the line
\* closest to c lies strictly between them, and it is inside the circle.
Crossing(p0, p1, c, r) ==
  LET dx == p1[1] - p0[1]
      dy == p1[2] - p0[2]
      gx == c[1] - p0[1]
      gy == c[2] - p0[2]
      dd == dx * dx + dy * dy
      along == gx * dx + gy * dy
      across == gx * dy - gy * dx
  IN /\ Dist2(p0, c) > r * r
     /\ Dist2(p1, c) > r * r
     /\ along > 0
     /\ along < dd
     /\ across * across < r * r * dd

\* The frame of ms milliseconds would carry the tip across the target.
CrossingFrame(ms) ==
  /\ state = "drilling"
  /\ Crossing(drill_tip, NextTip(ms), <<target_x, target_y>>, target_radius)

\* C16 as claimed: a frame whose step carries the tip from one side of the
\* target circle to the other reports no hit: the state does not become
\* win on that tick.
C16_StepTunnels ==
  [][\A ms \in FrameMs : (CrossingFrame(ms) /\ update(ms)) => state' # "win"]_vars

\* C16 as amended: a frame whose step carries the tip from one side of the
\* target circle to the other is a hit: the state becomes win on that tick
\* and the result point is on the circle, within the rounding of the grid.
C16_NoTunnelling ==
  [][\A ms \in FrameMs :
       (CrossingFrame(ms) /\ update(ms))
         => /\ state' = "win"
            /\ Dist2(result_point', <<target_x, target_y>>)
                 >= (target_radius - 1) * (target_radius - 1)
            /\ Dist2(result_point', <<target_x, target_y>>)
                 <= (target_radius + 1) * (target_radius + 1)]_vars

\* The tip is short of the target and the next frame's step, longer than
\* the target's diameter, ends beyond it.
C16_Witness ==
  \E ms \in FrameMs :
    /\ CrossingFrame(ms)
    /\ StepOf(ms) > 2 * target_radius
    /\ drill_path_length > 0

\* The quadratic of the probed call.
PA == QuadA(probe.p0, probe.p1)
PB == QuadB(probe.p0, probe.p1, probe.c)
PC == QuadC(probe.p0, probe.c, probe.r)
PD == Disc(probe.p0, probe.p1, probe.c, probe.r)
PRoot == CHOOSE s \in 0..ProbeMaxRoot : s * s = PD

Abs(n) == IF n < 0 THEN -n ELSE n

\* 0 <= (-b - sqrt(disc)) / (2a) <= 1 and 0 <= (-b + sqrt(disc)) / (2a) <= 1
\* in exact arithmetic, without the square root: cterm and a + b + cterm
\* are the quadratic's values at t = 0 and t = 1.
SmallerRootInUnit ==
  /\ PA > 0 /\ PD >= 0
  /\ PB <= 0 /\ PC >= 0
  /\ (PB + 2 * PA >= 0 \/ PA + PB + PC <= 0)
LargerRootInUnit ==
  /\ PA > 0 /\ PD >= 0
  /\ (PB <= 0 \/ PC <= 0)
  /\ PB + 2 * PA >= 0 /\ PA + PB + PC >= 0

\* pt is the grid point nearest to p0 + (n / 2a) (p1 - p0).
AtRoot(pt, n) ==
  /\ pt # Null
  /\ Abs(2 * PA * (pt[1] - probe.p0[1]) - n * (probe.p1[1] - probe.p0[1])) <= PA
  /\ Abs(2 * PA * (pt[2] - probe.p0[2]) - n * (probe.p1[2] - probe.p0[2])) <= PA

\* (pt - c) . (p1 - p0): -sqrt(disc) / 2 where the segment enters the
\* circle, sqrt(disc) / 2 where it leaves it, zero where it touches it; a
\* point rounded to the grid is off by at most (|dx| + |dy|) / 2.
Inward(pt) ==
  (pt[1] - probe.c[1]) * (probe.p1[1] - probe.p0[1])
    + (pt[2] - probe.c[2]) * (probe.p1[2] - probe.p0[2])

\* C17: lineCircleIntersection returns no hit when the discriminant is
\* negative; otherwise the point of the smaller root if that root is in
\* [0, 1], else the point of the larger root if that one is, else no hit;
\* so with both roots in [0, 1] the point is where the segment enters the
\* circle, not where it leaves it.
C17_RootOrder ==
  probe.applied
    => /\ PD < 0 => ~probe.res.hit
       /\ SmallerRootInUnit
            => /\ probe.res.hit
               /\ AtRoot(probe.res.pt, (-PB) - PRoot)
               /\ 2 * Inward(probe.res.pt)
                    <= Abs(probe.p1[1] - probe.p0[1])
                         + Abs(probe.p1[2] - probe.p0[2]) - PRoot
               /\ Dist2(probe.p0, probe.res.pt) <= Dist2(probe.p0, probe.p1)
       /\ (~SmallerRootInUnit /\ LargerRootInUnit)
            => /\ probe.res.hit
               /\ AtRoot(probe.res.pt, (-PB) + PRoot)
       /\ (~SmallerRootInUnit /\ ~LargerRootInUnit)
            => probe.res = [hit |-> FALSE, pt |-> Null]

\* A segment that starts outside the circle, passes through it and ends
\* outside it: both roots are in [0, 1] and they differ.
C17_Witness ==
  /\ probe.applied
  /\ SmallerRootInUnit /\ LargerRootInUnit
  /\ PC > 0 /\ PA + PB + PC > 0
  /\ 2 * PRoot > PA
  /\ probe.res.hit
  /\ Inward(probe.res.pt) < 0

\* C18: when the discriminant is exactly 0 and the double root -b / (2a)
\* is in [0, 1], lineCircleIntersection reports a hit at the one point the
\* segment and the circle share: the point of the segment nearest the
\* centre, at distance r from it.
C18_TangentHit ==
  (probe.applied /\ PA > 0 /\ PD = 0 /\ PB <= 0 /\ PB + 2 * PA >= 0)
    => /\ probe.res.hit
       /\ AtRoot(probe.res.pt, -PB)
       /\ 2 * Abs(Inward(probe.res.pt))
            <= Abs(probe.p1[1] - probe.p0[1]) + Abs(probe.p1[2] - probe.p0[2])
       /\ Dist2(probe.res.pt, probe.c) >= (probe.r - 1) * (probe.r - 1)
       /\ Dist2(probe.res.pt, probe.c) <= (probe.r + 1) * (probe.r + 1)

\* The horizontal segment along y = 5 under the circle of radius 5
\* about the origin touches it at <<0, 5>>.
C18_Witness ==
  /\ probe.applied
  /\ probe.p0 = <<-8, 5>> /\ probe.p1 = <<8, 5>>
  /\ probe.c = <<0, 0>> /\ probe.r = 5
  /\ PD = 0
  /\ probe.res = [hit |-> TRUE, pt |-> <<0, 5>>]

\* C19: at a step into lose the drill tip is the whole stepped endpoint,
\* the previous tip moved by 900 * dt along the heading, on or beyond the
\* bound and not the point where the bound was crossed; the path length
\* has grown by the whole step and the attempt's cost is that path length
\* times the cost per metre.
C19_NoBacktrack ==
  [][Entering("lose")
       => \E ms \in FrameMs :
            /\ state = "drilling"
            /\ drill_tip' = <<drill_tip[1] + Round(Cos(angle) * StepOf(ms), TrigScale),
                              drill_tip[2] + Round(Sin(angle) * StepOf(ms), TrigScale)>>
            /\ outOfBounds(drill_tip')
            /\ drill_path_length' = drill_path_length + StepOf(ms)
            /\ total_cost' = drill_path_length' * DRILL_COST_PER_METER]_vars

\* An attempt lost with the tip strictly below the depth bound.
C19_Witness ==
  /\ state = "lose"
  /\ drill_tip[2] < MAX_DEPTH_WORLD
  /\ total_cost = drill_path_length * DRILL_COST_PER_METER
  /\ drill_path_length > -MAX_DEPTH_WORLD

\* The frame of ms milliseconds moves the tip by the whole step: no part
\* of it is absorbed at the left edge of the grid.
WholeStep(ms) ==
  drill_tip[1] + Round(Cos(angle) * StepOf(ms), TrigScale) >= -MaxLeft

\* C20: within one attempt, at every angle in [-180, 0] and for every
\* sequence of frame times, each frame adds to the path length the
\* Euclidean length of the segment the tip travelled in it, which is
\* 900 * dt (to the rounding of the grid) on a step that is not the
\* attempt's last, and the path length never decreases.
C20_PathLength ==
  /\ [](drill_path_length >= 0)
  /\ [][state = "drilling"
          => /\ drill_path_length'
                  = drill_path_length + Sqrt(Dist2(drill_tip, drill_tip'))
             /\ drill_path_length' >= drill_path_length
             /\ \A ms \in AttemptMs :
                  (update(ms) /\ state' = "drilling" /\ WholeStep(ms))
                    => Abs(drill_path_length' - drill_path_length - StepOf(ms)) <= 1
             /\ \A ms \in AttemptMs :
                  (update(ms) /\ angle \in DrillAngles /\ WholeStep(ms)
                     /\ state' # "win")
                    => drill_path_length' = drill_path_length + StepOf(ms)]_vars

\* Far down an attempt fired at 60 degrees below the horizontal.
C20_Witness ==
  /\ state = "drilling"
  /\ angle = -60
  /\ drill_tip[2] < TARGET_Y_MIN
  /\ drill_path_length > -TARGET_Y_MIN

\* C21: a frame that starts and ends in drilling changes only the drill
\* tip and the path length: the angle, the result point, tries remaining,
\* both costs and the round parameters are as before; a frame in any
\* other state changes nothing.
C21_FrameEffect ==
  [][/\ (state = "drilling" /\ state' = "drilling")
          => UNCHANGED <<angle, result_point, tries_remaining, total_cost,
                         accumulated_cost, roundVars>>
     /\ (state # "drilling" /\ gameLoop) => UNCHANGED gameVars]_vars

\* In the middle of the second attempt, the first one's cost still shown.
C21_Witness ==
  /\ state = "drilling"
  /\ started = 2
  /\ tries_remaining = 2
  /\ drill_path_length > 0
  /\ drill_tip[2] < SURFACE_Y_WORLD
  /\ total_cost = accumulated_cost
  /\ total_cost > 0

\* C22: the round parameters change on a round start only; startDrill,
\* frames, resumes and the arrow keys leave them as they are in every
\* state.
C22_RoundParameters ==
  [][/\ roundVars' # roundVars => (RoundStarted /\ canReset)
     /\ (gameLoop \/ drillBtnClick \/ startDrill
           \/ \E key \in Keys \ {"n"} : keydown(key))
          => UNCHANGED roundVars]_vars

\* The round's three attempts are spent on the parameters it started with.
C22_Witness ==
  /\ state = "lose"
  /\ started = 3
  /\ tries_remaining = 0
  /\ Len(completed) = 3
  /\ origin_x = ORIGIN_X_MIN
  /\ target_x > TARGET_X_MIN

\* C23: in every state the result point is present exactly when the state
\* is win; in aim, drilling and lose it is absent.
C23_ResultPoint == (result_point # Null) <=> (state = "win")

\* A win on the second attempt: the miss before it left no result point.
C23_Witness ==
  /\ state = "win"
  /\ tries_remaining = 2
  /\ result_point = drill_tip
  /\ Len(completed) = 2

\* The tip is inside the drilling envelope: above the depth bound, not
\* above the surface and not past the lateral bound.
InEnvelope(p) ==
  /\ p[2] > MAX_DEPTH_WORLD
  /\ p[2] <= SURFACE_Y_WORLD
  /\ p[1] <= 1100

\* C24 as claimed: in drilling the tip is inside the envelope, and a tip at
\* or beyond a checked bound is seen in state lose only.
C24_BeyondOnlyInLose ==
  /\ state = "drilling" => InEnvelope(drill_tip)
  /\ outOfBounds(drill_tip) => state = "lose"

\* C24 as amended: in drilling the tip is inside the envelope; a tip at or
\* beyond a checked bound is seen in lose, in aim after a resume from a
\* miss (startDrill has not yet put the tip back to the origin) and, if
\* the hit point itself lies there, in win; never before the round's
\* first attempt.
C24_Envelope ==
  /\ state = "drilling" => InEnvelope(drill_tip)
  /\ outOfBounds(drill_tip)
       => \/ state = "lose"
          \/ state = "win"
          \/ (state = "aim" /\ started >= 1 /\ tries_remaining \in 1..2)
  /\ started = 0 => drill_tip = getOrigin

\* Back in aim after a miss, the tip still where the lost attempt left it.
C24_Witness ==
  /\ state = "aim"
  /\ outOfBounds(drill_tip)
  /\ tries_remaining = 1
  /\ started = 2

\* The frame of ms milliseconds has a segment that meets the target circle
\* from outside and a stepped endpoint at or beyond a checked bound.
HitAndExit(ms) ==
  LET n == NextTip(ms)
      c == <<target_x, target_y>>
  IN /\ state = "drilling"
     /\ outOfBounds(n)
     /\ Dist2(drill_tip, c) > target_radius * target_radius
     /\ \/ Dist2(n, c) < target_radius * target_radius
        \/ Crossing(drill_tip, n, c, target_radius)

\* C25: a hit takes priority over a boundary exit in the same frame: when
\* the step's segment meets the target circle and its endpoint is at or
\* below the depth bound or past the lateral bound, the state becomes win,
\* tries remaining is as before and the tip is the intersection point, on
\* the circle and no further than the stepped endpoint.
C25_HitBeforeExit ==
  [][\A ms \in AttemptMs :
       (HitAndExit(ms) /\ update(ms))
         => /\ state' = "win"
            /\ tries_remaining' = tries_remaining
            /\ result_point' = drill_tip'
            /\ Dist2(drill_tip', <<target_x, target_y>>)
                 >= (target_radius - 1) * (target_radius - 1)
            /\ Dist2(drill_tip', <<target_x, target_y>>)
                 <= (target_radius + 1) * (target_radius + 1)
            /\ Dist2(drill_tip, drill_tip') <= Dist2(drill_tip, NextTip(ms))]_vars

\* A vertical attempt won on the last frame before the depth bound: the
\* frame started within one step of the bound, so the step that hit would
\* have ended at or below it.
C25_Witness ==
  /\ state = "win"
  /\ target_y = TARGET_Y_MAX
  /\ angle = ANGLE_DEFAULT
  /\ tries_remaining = 3
  /\ drill_tip[2] > MAX_DEPTH_WORLD
  /\ drill_tip[2] = -drill_path_length
  /\ \E ms \in AttemptMs : drill_path_length > (-MAX_DEPTH_WORLD) - StepOf(ms)

\* C26: a frame with dt = 0 in state drilling does nothing: its segment
\* has length zero (a = 0), which is no hit, its endpoint is the tip, which
\* is inside the bounds, and the tip, the path length, the costs, tries
\* remaining and the state are as before.
C26_ZeroTick ==
  /\ [](state = "drilling"
          => /\ StepOf(0) = 0
             /\ NextTip(0) = drill_tip
             /\ QuadA(drill_tip, NextTip(0)) = 0
             /\ HitTest(0) = [hit |-> FALSE, pt |-> Null]
             /\ ~outOfBounds(NextTip(0)))
  /\ [][(state = "drilling" /\ update(0)) => UNCHANGED gameVars]_vars

\* Deep in the round's third attempt, where a frame of 0 ms may come.
C26_Witness ==
  /\ state = "drilling"
  /\ started = 3
  /\ 0 \in FrameMs
  /\ drill_tip[2] < TARGET_Y_MIN
  /\ HitTest(0) = [hit |-> FALSE, pt |-> Null]

====
